---- MODULE Spec2Model ----
(***************************************************************************)
(* Model of the VesselExpress NIfTI bridge                                 *)
(*   VesselExpress/workflow/scripts/nifti_utils.py  (load_nifti,           *)
(*       nifti_to_tiff, get_pixel_dimensions_from_nifti)                   *)
(*   vesselexpress_cli.py                           (main and its helpers) *)
(*                                                                         *)
(* Three specifications share the variables:                               *)
(*   SpecConvert  one call of nifti_to_tiff, statement by statement        *)
(*   SpecDims     one call of get_pixel_dimensions_from_nifti              *)
(*   SpecMain     one run of the command line main()                       *)
(*                                                                         *)
(* Numbers.  A voxel sample or a spacing is a binary float that is a       *)
(* multiple of one half, written as the integer count of halves (7 is      *)
(* 3.5).  On such values the float64 subtraction is exact and the          *)
(* truncation of the float64 product (v-min)/(max-min)*65535 equals the    *)
(* truncation of the exact quotient, so exact integer arithmetic computes  *)
(* what numpy computes.  All samples are finite.                           *)
(*                                                                         *)
(* Text.  A path is a sequence of tokens, each an atomic piece of the      *)
(* string ("scan", ".nii", ".gz", "/"); a formatted number is a sequence   *)
(* of one-character strings.                                               *)
(***************************************************************************)
EXTENDS Integers, Sequences, FiniteSets, TLC

VARIABLES
    pc,           \* position of the running call
    \* ---- nifti_to_tiff ----
    input_path,   \* argument input_path (token sequence)
    output_arg,   \* argument output_path as the caller passed it
    output_path,  \* the variable output_path as the call goes on
    nifti,        \* the input file on disk: [valid, dtype, samples]
    castMode,     \* what the build's float -> uint16 cast does out of range
    data,         \* local variable data: [dtype, samples]
    divided,      \* TRUE once the rescaling division of line 65 has run
    fs,           \* files written so far: path -> content
    steps,        \* the steps of the call attempted so far, in order
    error,        \* the exception that left the call, "none" if none
    result,       \* the value returned by the call (None before)
    \* ---- get_pixel_dimensions_from_nifti ----
    zooms,        \* header.get_zooms(): sequence of spacings (in halves)
    dims,         \* the returned string (sequence of characters)
    \* ---- main ----
    args,         \* parsed command line and the world it runs in
    ws,           \* the workspace directory
    setup,        \* outcome of setup_workspace
    engineCalls,  \* number of subprocess.run invocations
    engineExit,   \* exit statuses the engine ended with (none: not run to an end)
    shown,        \* what the --info path printed
    status        \* the values main has returned (none while it runs)

convVars == <<input_path, output_arg, output_path, nifti, castMode, data, divided, fs,
              steps, error, result>>
dimVars  == <<zooms, dims>>
mainVars == <<args, ws, setup, engineCalls, engineExit, shown, status>>
vars     == <<pc, convVars, dimVars, mainVars>>

None == "None"

(***************************************************************************)
(* Bounds of the model                                                     *)
(***************************************************************************)
MaxLen == 3         \* voxels per volume
MaxSample == 7      \* largest sample, in halves (3.5)
NegSpan == 2        \* smallest sample is -NegSpan halves (-1.0)
MaxSuffixes == 2    \* suffixes after the base name of the input file
MaxAxes == 4        \* components of a spacing tuple
MaxZoom == 4        \* largest spacing, in halves (2.0)
MaxExit == 3        \* largest engine exit status

(***************************************************************************)
(* Sequence helpers                                                        *)
(***************************************************************************)
Range(s) == {s[i] : i \in 1..Len(s)}

SeqsUpTo(S, n) == UNION {[1..k -> S] : k \in 0..n}

Front(s) == SubSeq(s, 1, Len(s) - 1)

Last(s) == s[Len(s)]

\* numpy ndarray.min() / ndarray.max()
ArrayMin(s) == CHOOSE x \in Range(s) : \A y \in Range(s) : x <= y

ArrayMax(s) == CHOOSE x \in Range(s) : \A y \in Range(s) : x >= y

(***************************************************************************)
(* load_nifti                                                              *)
(***************************************************************************)
IntDtypes == {"int16"}

FloatDtypes == {"float32", "float64"}

\* img.get_fdata(): the stored samples as a float64 array, whatever the
\* stored element type
get_fdata(file) == [dtype |-> "float64", samples |-> file.samples]

(***************************************************************************)
(* The normalization step of nifti_to_tiff                                 *)
(***************************************************************************)
UINT16_MAX == 65535

\* a real number n/d (d > 0) rounded toward zero
Trunc(r) == IF r.n >= 0 THEN r.n \div r.d ELSE -((-r.n) \div r.d)

\* a real number n/d (n >= 0) rounded to nearest, ties to even
RoundHalfEven(r) ==
    LET q == r.n \div r.d
        rem2 == 2 * (r.n % r.d)
    IN  IF rem2 > r.d \/ (rem2 = r.d /\ q % 2 = 1) THEN q + 1 ELSE q

\* a cast that rounds to nearest instead of truncating
CastRounding(r, mode) == RoundHalfEven(r)

\* ndarray.astype(np.uint16) on one float: truncation toward zero; a value
\* that does not fit is undefined in C, and the build either wraps it
\* modulo 2^16 or saturates it
astype_uint16(r, mode) ==
    LET t == Trunc(r)
    IN  IF t \in 0..UINT16_MAX THEN t
        ELSE IF mode = "wrap" THEN t % (UINT16_MAX + 1)
        ELSE IF t < 0 THEN 0 ELSE UINT16_MAX

\* a sample of h halves as a real number
Half(h) == [n |-> h, d |-> 2]

\* the rescaling without the subtraction of data_min in the numerator
RescaleNoOffset(v, mn, mx) == [n |-> v * UINT16_MAX, d |-> mx - mn]

\* (data - data_min) / (data_max - data_min) * 65535 for one sample
Rescale(v, mn, mx) == [n |-> (v - mn) * UINT16_MAX, d |-> mx - mn]

\* the normalization with the guard data_max >= data_min: a constant
\* volume is divided 0/0, and the NaN it gives is cast to 0
NormalizeGE(arr, mode) ==
    LET mn == ArrayMin(arr.samples)
        mx == ArrayMax(arr.samples)
    IN  [dtype |-> "uint16",
         samples |-> [i \in 1..Len(arr.samples) |->
                        IF mx = mn THEN 0
                        ELSE astype_uint16(Rescale(arr.samples[i], mn, mx), mode)],
         divided |-> TRUE]

\* lines 60-67: the array written, and whether line 65 ran
Normalize(arr, mode) ==
    IF arr.dtype \in FloatDtypes
    THEN LET mn == ArrayMin(arr.samples)
             mx == ArrayMax(arr.samples)
         IN  IF mx > mn
             THEN [dtype |-> "uint16",
                   samples |-> [i \in 1..Len(arr.samples) |->
                       astype_uint16(Rescale(arr.samples[i], mn, mx), mode)],
                   divided |-> TRUE]
             ELSE [dtype |-> "uint16",
                   samples |-> [i \in 1..Len(arr.samples) |->
                       astype_uint16(Half(arr.samples[i]), mode)],
                   divided |-> FALSE]
    ELSE [dtype |-> arr.dtype, samples |-> arr.samples, divided |-> FALSE]

(***************************************************************************)
(* Paths                                                                   *)
(***************************************************************************)
\* index of the last "/" token, 0 if none
LastSlash(p) ==
    LET S == {i \in 1..Len(p) : p[i] = "/"}
    IN  IF S = {} THEN 0 ELSE CHOOSE i \in S : \A j \in S : j <= i

\* Path(p).parent, kept with its trailing separator
Parent(p) == SubSeq(p, 1, LastSlash(p))

\* Path(p).name
Name(p) == SubSeq(p, LastSlash(p) + 1, Len(p))

\* Path(p).stem: the name without its last suffix, if it has one
Stem(p) == IF Len(Name(p)) > 1 THEN Front(Name(p)) ELSE Name(p)

\* str.replace(old, new): every occurrence
Replace(p, old, new) == [i \in 1..Len(p) |-> IF p[i] = old THEN new ELSE p[i]]

\* lines 71-76
DerivedPath(p) ==
    LET stem == Stem(p)
        stem2 == IF Len(stem) >= 1 /\ Last(stem) = ".nii" THEN Front(stem) ELSE stem
    IN  Parent(p) \o stem2 \o <<".tiff">>

\* line 84
MetadataPath(out) == Replace(out, ".tiff", "_nifti_metadata.txt")

\* the directories that exist and can be written
ExistingDirs == {<< >>, <<"data", "/">>, <<"run", ".tiff", "/">>}

Writable(p) == Parent(p) \in ExistingDirs

\* fs with content c written at path p
WriteFile(f, p, c) == [q \in DOMAIN f \cup {p} |-> IF q = p THEN c ELSE f[q]]

(***************************************************************************)
(* One call of nifti_to_tiff(input_path, output_path)                      *)
(***************************************************************************)
Samples == (0 - NegSpan)..MaxSample

Arrays == SeqsUpTo(Samples, MaxLen) \ {<< >>}

\* a file that nib.load cannot read
Corrupt == [valid |-> FALSE, dtype |-> "none", samples |-> << >>]

\* the readable volumes; an integer-typed one stores whole numbers
Volumes ==
    {[valid |-> TRUE, dtype |-> t, samples |-> a] : t \in FloatDtypes, a \in Arrays}
    \cup {[valid |-> TRUE, dtype |-> t, samples |-> a] :
             t \in IntDtypes, a \in {b \in Arrays : \A i \in 1..Len(b) : b[i] % 2 = 0}}

Suffixes == {".nii", ".gz", ".v2"}

InputDirs == {<< >>, <<"data", "/">>}

InputPaths ==
    {d \o <<"scan">> \o s : d \in InputDirs, s \in SeqsUpTo(Suffixes, MaxSuffixes)}

OutputArgs ==
    {None, <<"out", ".tiff">>, <<"out", ".tif">>, <<"data", "/", "out", ".tiff">>,
     <<"missing", "/", "out", ".tiff">>, <<"run", ".tiff", "/", "out", ".tiff">>}

DefaultInput == <<"scan", ".nii", ".gz">>

DefaultVolumes ==
    {Corrupt,
     [valid |-> TRUE, dtype |-> "float32", samples |-> <<0, 1, 4>>],
     [valid |-> TRUE, dtype |-> "int16", samples |-> <<2, 4>>]}

NoFiles == [q \in {} |-> None]

IdleDims == zooms = << >> /\ dims = << >>

IdleMain ==
    /\ args = None /\ ws = None /\ setup = None /\ engineCalls = 0
    /\ engineExit = << >> /\ shown = None /\ status = << >>

IdleConvert ==
    /\ input_path = << >> /\ output_arg = None /\ output_path = None
    /\ nifti = None /\ castMode = "wrap" /\ data = None /\ divided = FALSE
    /\ fs = NoFiles /\ steps = << >> /\ error = "none" /\ result = None

\* the path derivation reads no sample and the normalization reads no path:
\* every path is tried with a few volumes, every volume with one path
InitConvert ==
    /\ pc = "load"
    /\ \/ input_path \in InputPaths /\ output_arg \in OutputArgs
          /\ nifti \in DefaultVolumes
       \/ input_path = DefaultInput /\ output_arg = None
          /\ nifti \in Volumes \cup {Corrupt}
    /\ output_path = output_arg
    /\ castMode \in {"wrap", "saturate"}
    /\ data = None /\ divided = FALSE /\ fs = NoFiles /\ steps = << >>
    /\ error = "none" /\ result = None
    /\ IdleDims /\ IdleMain

\* load_nifti with the failure caught and an empty volume substituted
LoadNiftiSubstitute ==
    /\ pc = "load"
    /\ steps' = Append(steps, "load")
    /\ data' = IF nifti.valid THEN get_fdata(nifti)
               ELSE [dtype |-> "float64", samples |-> <<0>>]
    /\ pc' = "normalize"
    /\ UNCHANGED <<input_path, output_arg, output_path, nifti, castMode, divided, fs, error,
                   result, dimVars, mainVars>>

\* line 56: data, affine, header = load_nifti(input_path)
LoadNifti ==
    /\ pc = "load"
    /\ steps' = Append(steps, "load")
    /\ IF nifti.valid
       THEN data' = get_fdata(nifti) /\ pc' = "normalize" /\ error' = error
       ELSE data' = data /\ pc' = "raised" /\ error' = "load"
    /\ UNCHANGED <<input_path, output_arg, output_path, nifti, castMode, divided, fs,
                   result, dimVars, mainVars>>

\* lines 60-67
NormalizeData ==
    /\ pc = "normalize"
    /\ steps' = Append(steps, "normalize")
    /\ LET r == Normalize(data, castMode)
       IN  /\ data' = [dtype |-> r.dtype, samples |-> r.samples]
           /\ divided' = r.divided
    /\ pc' = "derive"
    /\ UNCHANGED <<input_path, output_arg, output_path, nifti, castMode, fs, error, result,
                   dimVars, mainVars>>

\* lines 70-76
DeterminePath ==
    /\ pc = "derive"
    /\ output_path' = IF output_path = None THEN DerivedPath(input_path)
                      ELSE output_path
    /\ pc' = "imsave"
    /\ UNCHANGED <<input_path, output_arg, nifti, castMode, data, divided, fs, steps, error,
                   result, dimVars, mainVars>>

\* line 81: imsave(output_path, data, photometric='minisblack')
SaveTiff ==
    /\ pc = "imsave"
    /\ steps' = Append(steps, "raster")
    /\ IF Writable(output_path)
       THEN /\ fs' = WriteFile(fs, output_path,
                        [kind |-> "raster", dtype |-> data.dtype,
                         shape |-> Len(data.samples), samples |-> data.samples])
            /\ pc' = "metadata" /\ error' = error
       ELSE fs' = fs /\ pc' = "raised" /\ error' = "imsave"
    /\ UNCHANGED <<input_path, output_arg, output_path, nifti, castMode, data, divided,
                   result, dimVars, mainVars>>

\* lines 84-95: the sidecar is written and the raster path returned
SaveMetadata ==
    /\ pc = "metadata"
    /\ steps' = Append(steps, "sidecar")
    /\ IF Writable(MetadataPath(output_path))
       THEN /\ fs' = WriteFile(fs, MetadataPath(output_path),
                        [kind |-> "metadata", dtype |-> data.dtype,
                         shape |-> Len(data.samples), samples |-> << >>])
            /\ pc' = "returned" /\ result' = output_path /\ error' = error
       ELSE fs' = fs /\ pc' = "raised" /\ error' = "open" /\ result' = result
    /\ UNCHANGED <<input_path, output_arg, output_path, nifti, castMode, data, divided,
                   dimVars, mainVars>>

NextConvert ==
    \/ LoadNifti
    \/ NormalizeData
    \/ DeterminePath
    \/ SaveTiff
    \/ SaveMetadata

SpecConvert == InitConvert /\ [][NextConvert]_vars

(***************************************************************************)
(* Properties of nifti_to_tiff                                             *)
(***************************************************************************)
\* the normalization step has run
Normalized ==
    \/ pc \in {"derive", "imsave", "metadata", "returned"}
    \/ pc = "raised" /\ error \in {"imsave", "open"}

\* output_path holds the path the raster is written to
PathKnown ==
    \/ pc \in {"imsave", "metadata", "returned"}
    \/ pc = "raised" /\ error \in {"imsave", "open"}

InMin == ArrayMin(nifti.samples)

InMax == ArrayMax(nifti.samples)

Voxels == 1..Len(nifti.samples)

\* C1: for a loaded float array with max > min, every written sample lies
\* in [0, 65535], a sample equal to the minimum is written as 0 and a
\* sample equal to the maximum as 65535.
C1_RescaledRange ==
    (Normalized /\ InMax > InMin) =>
        \A i \in Voxels :
            /\ data.samples[i] \in 0..UINT16_MAX
            /\ (nifti.samples[i] = InMin => data.samples[i] = 0)
            /\ (nifti.samples[i] = InMax => data.samples[i] = UINT16_MAX)

\* a rescaled volume with a sample strictly between its minimum and maximum
C1_Witness ==
    /\ Normalized /\ InMax > InMin /\ InMin # 0
    /\ \E i, j, k \in Voxels :
          /\ data.samples[i] = 0 /\ data.samples[k] = UINT16_MAX
          /\ data.samples[j] \in 1..(UINT16_MAX - 1)

\* C2 as claimed: every written sample is the scaled value rounded to the
\* nearest integer.
C2_RoundedToNearest ==
    (Normalized /\ InMax > InMin) =>
        \A i \in Voxels :
            data.samples[i] = RoundHalfEven(Rescale(nifti.samples[i], InMin, InMax))

\* C2 as amended: every written sample w is the scaled value truncated
\* toward zero: w <= (v - min) / (max - min) * 65535 < w + 1.
C2_TruncatedTowardZero ==
    (Normalized /\ InMax > InMin) =>
        \A i \in Voxels :
            LET w == data.samples[i]
                num == (nifti.samples[i] - InMin) * UINT16_MAX
                den == InMax - InMin
            IN  w * den <= num /\ num < (w + 1) * den

\* a written sample whose scaled value has a fraction of one half or more
C2_Witness ==
    /\ Normalized /\ InMax > InMin
    /\ \E i \in Voxels :
          LET num == (nifti.samples[i] - InMin) * UINT16_MAX
              den == InMax - InMin
          IN  2 * (num % den) >= den /\ data.samples[i] * den < num

\* the samples of an array in halves (a uint16 sample counts whole units)
InHalves(arr) ==
    IF arr.dtype = "uint16" THEN [i \in 1..Len(arr.samples) |-> 2 * arr.samples[i]]
    ELSE arr.samples

\* C3 as claimed: a volume stored with an integer element type is written
\* sample for sample as stored, with its element type unchanged.
C3_IntegerPassThrough ==
    (Normalized /\ nifti.dtype \in IntDtypes) =>
        /\ data.dtype = nifti.dtype
        /\ InHalves(data) = nifti.samples

\* C4: for a constant float array the division of line 65 is not run, no
\* error leaves the step, the written array is constant, and a value that
\* fits 16 bits is written truncated (3.5 as 3).
C4_ConstantVolume ==
    (Normalized /\ InMax = InMin) =>
        /\ ~divided
        /\ data.dtype = "uint16"
        /\ \A i \in Voxels :
              /\ data.samples[i] = data.samples[1]
              /\ nifti.samples[i] >= 0 =>
                    /\ 2 * data.samples[i] <= nifti.samples[i]
                    /\ nifti.samples[i] < 2 * data.samples[i] + 2
              /\ nifti.samples[i] = 7 => data.samples[i] = 3

\* the constant volume 3.5 of more than one voxel, written as 3
C4_Witness ==
    /\ Normalized /\ InMax = InMin /\ InMin = 7 /\ Len(nifti.samples) > 1
    /\ \A i \in Voxels : data.samples[i] = 3

\* the file name ends in .nii or .nii.gz
NiftiNamed(p) ==
    \/ Last(p) = ".nii"
    \/ Len(p) >= 2 /\ Last(p) = ".gz" /\ p[Len(p) - 1] = ".nii"

\* the name with one trailing .gz and then one trailing .nii removed, and
\* .tiff appended
StrippedOnce(name) ==
    LET a == IF Last(name) = ".gz" THEN Front(name) ELSE name
        b == IF Last(a) = ".nii" THEN Front(a) ELSE a
    IN  b \o <<".tiff">>

\* C6 as claimed: without an output path, the raster path is in the
\* directory of the input and its name is the input name with .gz and .nii
\* each stripped once and .tiff appended, no further suffix removed.
C6_SuffixesStrippedOnce ==
    (PathKnown /\ output_arg = None /\ NiftiNamed(input_path)) =>
        output_path = Parent(input_path) \o StrippedOnce(Name(input_path))

\* C7 as claimed: a call that returns has written two distinct files, and
\* the returned path holds the raster.
C7_SidecarDistinctFromRaster ==
    pc = "returned" =>
        /\ MetadataPath(result) # result
        /\ Cardinality(DOMAIN fs) = 2
        /\ fs[result].kind = "raster"

IsPrefix(s, t) == Len(s) <= Len(t) /\ s = SubSeq(t, 1, Len(s))

\* C8: the steps run in the order load, normalize, write raster, write
\* sidecar, each at most once; a failed step ends the call with an error
\* and no returned path; when the load fails no file is written.
C8_StepsAndFailures ==
    /\ IsPrefix(steps, <<"load", "normalize", "raster", "sidecar">>)
    /\ pc = "raised" => error # "none" /\ result = None
    /\ pc = "returned" =>
          /\ steps = <<"load", "normalize", "raster", "sidecar">>
          /\ error = "none" /\ result = output_path
          /\ nifti.valid /\ Writable(output_path)
          /\ Writable(MetadataPath(output_path))
    /\ (~nifti.valid /\ pc # "load") => pc = "raised" /\ error = "load"
    /\ ~nifti.valid => fs = NoFiles
    /\ (PathKnown /\ pc # "imsave" /\ ~Writable(output_path)) =>
          pc = "raised" /\ error = "imsave" /\ fs = NoFiles

\* a call whose load failed
C8_Witness ==
    pc = "raised" /\ error = "load" /\ steps = <<"load">> /\ fs = NoFiles

(***************************************************************************)
(* get_pixel_dimensions_from_nifti                                         *)
(***************************************************************************)
Digits == <<"0", "1", "2", "3", "4", "5", "6", "7", "8", "9">>

RECURSIVE IntStr(_)
\* the decimal digits of a natural number
IntStr(n) == IF n < 10 THEN <<Digits[n + 1]>>
             ELSE IntStr(n \div 10) \o <<Digits[(n % 10) + 1]>>

\* the f-string form of a numpy float that is h halves: "2.0", "0.5"
FloatStr(h) == IntStr(h \div 2) \o <<".">> \o (IF h % 2 = 0 THEN <<"0">> ELSE <<"5">>)

DefaultDims == <<"1", ".", "0", ",", "1", ".", "0", ",", "1", ".", "0">>

\* the spacing formatted in header order (x, y, z)
get_pixel_dimensions_unreversed(z) ==
    IF Len(z) >= 3
    THEN FloatStr(z[1]) \o <<",">> \o FloatStr(z[2]) \o <<",">> \o FloatStr(z[3])
    ELSE DefaultDims

\* lines 118-126, on the tuple header.get_zooms() returned
get_pixel_dimensions_from_nifti(z) ==
    IF Len(z) >= 3
    THEN FloatStr(z[3]) \o <<",">> \o FloatStr(z[2]) \o <<",">> \o FloatStr(z[1])
    ELSE DefaultDims

ZoomValues == 1..MaxZoom

InitDims ==
    /\ pc = "dims_call"
    /\ zooms \in SeqsUpTo(ZoomValues, MaxAxes)
    /\ dims = << >>
    /\ IdleConvert /\ IdleMain

\* one call of get_pixel_dimensions_from_nifti on a readable file
GetPixelDimensions ==
    /\ pc = "dims_call"
    /\ dims' = get_pixel_dimensions_from_nifti(zooms)
    /\ pc' = "dims_done"
    /\ UNCHANGED <<zooms, convVars, mainVars>>

NextDims == GetPixelDimensions

SpecDims == InitDims /\ [][NextDims]_vars

(***************************************************************************)
(* Properties of get_pixel_dimensions_from_nifti                           *)
(***************************************************************************)
Commas(s) == {i \in 1..Len(s) : s[i] = ","}

\* position of the k-th comma of s
CommaPos(s, k) ==
    CHOOSE i \in Commas(s) : Cardinality({j \in Commas(s) : j < i}) = k - 1

\* the k-th comma-separated field of s
Field(s, k) ==
    LET n == Cardinality(Commas(s)) + 1
        from == IF k = 1 THEN 1 ELSE CommaPos(s, k - 1) + 1
        to == IF k = n THEN Len(s) ELSE CommaPos(s, k) - 1
    IN  SubSeq(s, from, to)

DigitVal(c) == CHOOSE d \in 0..9 : Digits[d + 1] = c

RECURSIVE IntVal(_)
IntVal(ds) == IF ds = << >> THEN 0 ELSE 10 * IntVal(Front(ds)) + DigitVal(Last(ds))

\* the number of halves a decimal text "i.f" denotes, -1 if it is no
\* multiple of one half written with one decimal
ParseHalves(f) ==
    LET dots == {i \in 1..Len(f) : f[i] = "."}
    IN  IF Cardinality(dots) # 1 THEN -1
        ELSE LET p == CHOOSE i \in dots : TRUE
                 int == SubSeq(f, 1, p - 1)
                 frac == SubSeq(f, p + 1, Len(f))
             IN  IF int = << >> \/ frac \notin {<<"0">>, <<"5">>}
                    \/ \E i \in 1..Len(int) : int[i] \notin Range(Digits)
                 THEN -1
                 ELSE 2 * IntVal(int) + (IF frac = <<"5">> THEN 1 ELSE 0)

\* the numbers the returned text lists
ParsedDims == [k \in 1..(Cardinality(Commas(dims)) + 1) |-> ParseHalves(Field(dims, k))]

\* C5: a spacing tuple with at least 3 components is returned as its third,
\* second and first component in that order, joined by commas ((0.5, 0.5,
\* 2.0) gives "2.0,0.5,0.5"); a shorter one gives exactly "1.0,1.0,1.0".
C5_SpacingReversed ==
    pc = "dims_done" =>
        /\ Len(zooms) >= 3 => ParsedDims = <<zooms[3], zooms[2], zooms[1]>>
        /\ Len(zooms) < 3 => dims = DefaultDims
        /\ zooms = <<1, 1, 4>> =>
              dims = <<"2", ".", "0", ",", "0", ".", "5", ",", "0", ".", "5">>

\* the call on the spacing (0.5, 0.5, 2.0)
C5_Witness ==
    /\ pc = "dims_done" /\ zooms = <<1, 1, 4>>
    /\ dims = <<"2", ".", "0", ",", "0", ".", "5", ",", "0", ".", "5">>

\* C9: a spacing tuple whose length is not exactly 3 (a 4-D volume's, with
\* 4 components, included) gives the default "1.0,1.0,1.0"; only a
\* 3-element one is returned reversed.
C9_NonThreeGivesDefault ==
    pc = "dims_done" =>
        /\ Len(zooms) # 3 => dims = DefaultDims
        /\ Len(zooms) = 3 => ParsedDims = <<zooms[3], zooms[2], zooms[1]>>

(***************************************************************************)
(* vesselexpress_cli.py: one run of main()                                 *)
(***************************************************************************)
\* the workspace directory: does it exist, does it hold the input file,
\* and which config.json it holds
Workspaces ==
    {w \in [exists : BOOLEAN, input : BOOLEAN, config : {"none", "existing"}] :
        ~w.exists => (~w.input /\ w.config = "none")}

\* the command line and the world main() runs in
\*   input_exists    os.path.exists(args.input)
\*   info            --info
\*   nifti_suffix    args.input ends in .nii or .nii.gz
\*   readable        the input parses as a NIfTI file
\*   config          -c absent, -c naming a missing file, -c naming a file
\*   mkdir_ok        the workspace directory can be created
\*   in_workspace    the input file is itself the workspace's copy
\*   copy_ok         shutil.copy2 into the workspace succeeds
\*   default_config  VesselExpress/data/config.json exists
\*   ws0             the workspace before the run
Runs ==
    {a \in [input_exists : BOOLEAN, info : BOOLEAN, nifti_suffix : BOOLEAN,
            readable : BOOLEAN, config : {"none", "missing", "given"},
            mkdir_ok : BOOLEAN, in_workspace : BOOLEAN, copy_ok : BOOLEAN,
            default_config : BOOLEAN, ws0 : Workspaces] :
        /\ a.in_workspace => (a.input_exists /\ a.ws0.input)
        /\ a.readable => a.input_exists}

\* the statuses the engine can end with: 0..MaxExit, or killed by SIGKILL
ExitCodes == (0..MaxExit) \cup {-9}

\* setup_workspace (lines 37-78) on workspace w: whether it returned, and
\* the workspace it leaves
setup_workspace(a, w) ==
    LET made == [w EXCEPT !.exists = TRUE]
        copied == [made EXCEPT !.input = TRUE]
    IN  IF ~w.exists /\ ~a.mkdir_ok THEN [ok |-> FALSE, ws |-> w]
        ELSE IF ~a.input_exists THEN [ok |-> FALSE, ws |-> made]
        ELSE IF ~a.in_workspace /\ ~a.copy_ok THEN [ok |-> FALSE, ws |-> made]
        ELSE IF a.config = "missing" THEN [ok |-> FALSE, ws |-> copied]
        ELSE IF a.config = "given"
             THEN IF a.copy_ok
                  THEN [ok |-> TRUE, ws |-> [copied EXCEPT !.config = "user"]]
                  ELSE [ok |-> FALSE, ws |-> copied]
        ELSE IF copied.config = "none" /\ a.default_config
             THEN IF a.copy_ok
                  THEN [ok |-> TRUE, ws |-> [copied EXCEPT !.config = "default"]]
                  ELSE [ok |-> FALSE, ws |-> copied]
        ELSE [ok |-> TRUE, ws |-> copied]

\* every failure of the engine reported as 1
run_status_collapsed(code) == IF code = 0 THEN 0 ELSE 1

\* lines 125-133: what run_vesselexpress returns when the engine ended
\* with status code
run_status(code) == IF code = 0 THEN 0 ELSE code

InitMain ==
    /\ pc = "main"
    /\ args \in Runs
    /\ ws = args.ws0
    /\ setup = None /\ engineCalls = 0 /\ engineExit = << >>
    /\ shown = None /\ status = << >>
    /\ IdleConvert /\ IdleDims

\* lines 205-211: the input-existence check and the --info test
MainCheckInput ==
    /\ pc = "main"
    /\ IF ~args.input_exists THEN pc' = "exit" /\ status' = <<1>>
       ELSE IF args.info THEN pc' = "info" /\ status' = status
       ELSE pc' = "setup" /\ status' = status
    /\ UNCHANGED <<args, ws, setup, engineCalls, engineExit, shown, convVars,
                   dimVars>>

\* lines 212-217: print the file information and return 0;
\* print_nifti_info (lines 136-160) only reads, and catches every error
MainInfo ==
    /\ pc = "info"
    /\ shown' = IF ~args.nifti_suffix THEN "file_size"
                ELSE IF args.readable THEN "nifti_info" ELSE "nifti_error"
    /\ status' = <<0>>
    /\ pc' = "exit"
    /\ UNCHANGED <<args, ws, setup, engineCalls, engineExit, convVars, dimVars>>

\* line 221, and lines 231-233 when setup_workspace raises
SetupWorkspace ==
    /\ pc = "setup"
    /\ LET r == setup_workspace(args, ws)
       IN  /\ ws' = r.ws
           /\ IF r.ok THEN setup' = "ok" /\ pc' = "run" /\ status' = status
              ELSE setup' = "failed" /\ pc' = "exit" /\ status' = <<1>>
    /\ UNCHANGED <<args, engineCalls, engineExit, shown, convVars, dimVars>>

\* lines 224-229: run_vesselexpress; the engine ends with some status, or
\* cannot be started, which raises into lines 231-233
RunVesselExpress ==
    /\ pc = "run"
    /\ engineCalls' = engineCalls + 1
    /\ \/ \E code \in ExitCodes :
             /\ engineExit' = Append(engineExit, code)
             /\ status' = <<run_status(code)>>
       \/ engineExit' = engineExit /\ status' = <<1>>
    /\ pc' = "exit"
    /\ UNCHANGED <<args, ws, setup, shown, convVars, dimVars>>

NextMain ==
    \/ MainCheckInput
    \/ MainInfo
    \/ SetupWorkspace
    \/ RunVesselExpress

SpecMain == InitMain /\ [][NextMain]_vars

(***************************************************************************)
(* Properties of main                                                      *)
(***************************************************************************)
\* C10: the engine is invoked at most once, and only after the input was
\* found, --info is absent and setup_workspace returned; main then returns
\* the engine's exit status (0 for 0); a missing input or a failed setup
\* returns 1 without an invocation; --info returns 0 without an
\* invocation and without a change of the workspace.
C10_EngineOnceAndStatus ==
    /\ engineCalls <= 1
    /\ engineCalls = 1 => args.input_exists /\ ~args.info /\ setup = "ok"
    /\ Len(engineExit) <= engineCalls
    /\ pc = "exit" =>
          /\ Len(status) = 1
          /\ engineExit # << >> => status = engineExit
          /\ ~args.input_exists =>
                status = <<1>> /\ engineCalls = 0 /\ ws = args.ws0
          /\ setup = "failed" => status = <<1>> /\ engineCalls = 0
          /\ (args.input_exists /\ args.info) =>
                /\ status = <<0>> /\ engineCalls = 0
                /\ ws = args.ws0 /\ setup = None
          /\ setup = "ok" => engineCalls = 1
    /\ pc # "exit" => status = << >>

\* a run whose engine ended with a status other than 0 and 1
C10_Witness ==
    /\ pc = "exit" /\ engineCalls = 1 /\ setup = "ok"
    /\ engineExit = <<2>> /\ status = <<2>> /\ ws # args.ws0

====
